---- MODULE Spec2Model ----
(***************************************************************************)
(* Model of the UN Data Lake ETL collector                                 *)
(* (backend/src/collectors/deep_un.py): cache layer, bounded fetch pool,   *)
(* load orchestration, transform (pivot + interpolation) and 5-year growth.*)
(*                                                                         *)
(* Values are options: <<>> is None / NaN, <<v>> is the number v.          *)
(* A growth cell <<e, s>> stands for (e/s)^(1/5) - 1, kept symbolic.       *)
(***************************************************************************)
EXTENDS Integers, Sequences, FiniteSets, TLC

VARIABLES
    \* ---- transform pipeline on one record list (pure functions) ----
    t_records,      \* input: list of raw provider records
    t_stage,        \* "input" | "table" | "growth"
    t_table,        \* result of _records_to_dataframe: the pivot
    t_names,        \* result of _records_to_dataframe: {iso3: name}
    t_growth        \* result of _compute_growth_rate on t_table

VARIABLES
    \* ---- environment of the collector ----
    now,            \* time.time(), in seconds
    cacheFile,      \* _CACHE_FILE on disk
    provider,       \* what the data provider answers for each indicator
    \* ---- DeepUNCollector fields ----
    dataframes,     \* self._dataframes, base keys: indicator -> table
    growthframes,   \* self._dataframes, keys f"{name}_growth_5y", by name
    country_names,  \* self._country_names
    loaded,         \* self._loaded
    \* ---- _executor = ThreadPoolExecutor(max_workers=12) ----
    workQueue,      \* submitted work items <<caller, indicator>>, FIFO
    running,        \* work items a worker thread is executing
    \* ---- one load_all() coroutine per caller ----
    pc,             \* "idle" | "awaiting" (suspended in asyncio.gather)
    cached,         \* the caller's `cached`
    raw_data,       \* the caller's `raw_data`
    stage,          \* 0: cache branch; k: k-th cluster of the fetch-all branch
    tasks,          \* names of the tasks of the current gather, in task order
    results,        \* records returned by the finished tasks, by name
    doneOrder,      \* names of the finished tasks, in completion order
    \* ---- observation of the current / last load cycle of each caller ----
    issued,         \* requests submitted in the cycle, per indicator
    saves,          \* _save_cache calls of the cycle
    outcome,        \* how the last load_all() call ended
    reordered,      \* a gather of the cycle had its requests return out of task order
    \* ---- observation of the run ----
    calls,          \* number of load_all() calls made
    ticks,          \* number of clock advances
    invalidated     \* invalidate_cache() ran and no load_all() was called since

VARIABLES
    \* ---- the executor under the full catalog, work items counted ----
    pool_queued,    \* work items submitted and not yet taken by a thread
    pool_running    \* work items a worker thread is executing

VARIABLES
    \* ---- the last facade query a reader made on the collector ----
    q_call,         \* the accessor called and its arguments
    q_result        \* what the call returned, or that it raised

VARIABLES
    \* ---- detect_green_growth(co2_growth, gdp_growth, country_names, top_n) ----
    co2_growth,     \* Series of CO2 growth by iso3
    gdp_growth,     \* Series of GDP growth by iso3
    top_n,          \* how many entries to return
    g_stage,        \* "input" | "ranked"
    rankings        \* the returned list

tvars == <<t_records, t_stage, t_table, t_names, t_growth>>
envvars == <<now, cacheFile, provider>>
selfvars == <<dataframes, growthframes, country_names, loaded>>
poolvars == <<workQueue, running>>
loadvars == <<pc, cached, raw_data, stage, tasks, results, doneOrder>>
obsvars == <<issued, saves, outcome, reordered, calls, ticks, invalidated>>
cvars == <<envvars, selfvars, poolvars, loadvars, obsvars>>
countvars == <<pool_queued, pool_running>>
qvars == <<q_call, q_result>>
gvars == <<co2_growth, gdp_growth, top_n, g_stage, rankings>>
vars == <<tvars, cvars, countvars, qvars, gvars>>

\* ------------------------------------------------------------------------
\* Bounds
\* ------------------------------------------------------------------------
MaxYears == 7          \* years of the generated record grids
MaxCalls == 2          \* load_all() calls of a run
MaxTicks == 1          \* clock advances of a run

\* ------------------------------------------------------------------------
\* Program constants
\* ------------------------------------------------------------------------
INTERP_LIMIT == 3      \* pivot.interpolate(method="linear", limit=3, axis=0)
GROWTH_WINDOW == 5     \* _compute_growth_rate(df, window=5)

NaN == <<>>            \* None in a record, NaN in a DataFrame
None == <<>>

WB_AGGREGATE_CODES == {"WLD", "EAS", "HIC"}

NON_DICT == "<non-dict>"    \* rec["country"] is not a dict
NO_VALUE == "<no-value>"    \* rec has no "country", or the dict has no "value"

\* ------------------------------------------------------------------------
\* Helpers
\* ------------------------------------------------------------------------
RECURSIVE SortedSeq(_)
SortedSeq(S) ==
    IF S = {} THEN <<>>
    ELSE LET m == CHOOSE x \in S : \A y \in S : x <= y
         IN  <<m>> \o SortedSeq(S \ {m})

SetMax(S) == CHOOSE x \in S : \A y \in S : y <= x
SetMin(S) == CHOOSE x \in S : \A y \in S : x <= y

\* pd.DataFrame(): no rows, no columns
EmptyDF == [index |-> <<>>, columns |-> {}, cell |-> <<>>]

DFEmpty(df) == Len(df.index) = 0 \/ df.columns = {}

Rec(iso3, date, value, country) ==
    [iso3 |-> iso3, date |-> date, value |-> value, country |-> country]

\* ------------------------------------------------------------------------
\* TRANSFORM: _records_to_dataframe
\* ------------------------------------------------------------------------

\* the loop's filter: records that reach rows.append
RowKept(rec) ==
    /\ rec.iso3 # ""
    /\ rec.iso3 \notin WB_AGGREGATE_CODES
    /\ rec.date # None

Rows(records) == SelectSeq(records, RowKept)

\* names[iso3]: set by the first kept record of iso3 whose country is a dict
NameOfRec(rec) == IF rec.country = NO_VALUE THEN rec.iso3 ELSE rec.country

NamesOfRows(rows) ==
    LET named == {k \in 1..Len(rows) : rows[k].country # NON_DICT}
        codes == {rows[k].iso3 : k \in named}
        first(c) == SetMin({k \in named : rows[k].iso3 = c})
    IN  [c \in codes |-> NameOfRec(rows[first(c)])]

\* pivot_table(aggfunc="first"): first non-null value of the (year, iso3) group
PivotFirst(rows, y, c) ==
    LET hits == {k \in 1..Len(rows) :
                    /\ rows[k].iso3 = c
                    /\ rows[k].date = <<y>>
                    /\ rows[k].value # None}
    IN  IF hits = {} THEN NaN ELSE rows[SetMin(hits)].value

\* DataFrame.interpolate(method="linear", limit=3) on one column:
\* forward direction, positions (not index values) as the x axis
PrevValid(col, k) ==
    LET S == {j \in 1..(k-1) : col[j] # NaN} IN IF S = {} THEN 0 ELSE SetMax(S)

NextValid(col, k) ==
    LET S == {j \in (k+1)..Len(col) : col[j] # NaN} IN IF S = {} THEN 0 ELSE SetMin(S)

InterpolateCell(col, k) ==
    IF col[k] # NaN THEN col[k]
    ELSE LET p == PrevValid(col, k)
             q == NextValid(col, k)
         IN  IF p = 0 THEN NaN                     \* leading NaN: never filled
             ELSE IF k - p > INTERP_LIMIT THEN NaN \* beyond `limit` consecutive fills
             ELSE IF q = 0 THEN col[p]             \* trailing NaN: last valid value
             ELSE <<col[p][1] + ((col[q][1] - col[p][1]) * (k - p)) \div (q - p)>>

Interpolate(col) == [k \in 1..Len(col) |-> InterpolateCell(col, k)]

\* the pivot before interpolation: all-NaN groups, rows and columns are dropped
Pivot(rows) ==
    LET allY  == {rows[k].date[1] : k \in 1..Len(rows)}
        allC  == {rows[k].iso3 : k \in 1..Len(rows)}
        years == {y \in allY : \E c \in allC : PivotFirst(rows, y, c) # NaN}
        cols  == {c \in allC : \E y \in allY : PivotFirst(rows, y, c) # NaN}
        idx   == SortedSeq(years)
    IN  [index   |-> idx,
         columns |-> cols,
         cell    |-> [c \in cols |-> [k \in 1..Len(idx) |-> PivotFirst(rows, idx[k], c)]]]

InterpolateDF(df) ==
    [index |-> df.index, columns |-> df.columns,
     cell  |-> [c \in df.columns |-> Interpolate(df.cell[c])]]

Records2DF(records) ==
    IF Len(records) = 0 THEN [df |-> EmptyDF, names |-> <<>>]
    ELSE LET rows == Rows(records)
         IN  IF Len(rows) = 0 THEN [df |-> EmptyDF, names |-> NamesOfRows(rows)]
             ELSE [df |-> InterpolateDF(Pivot(rows)), names |-> NamesOfRows(rows)]

\* ------------------------------------------------------------------------
\* GROWTH: _compute_growth_rate
\* ------------------------------------------------------------------------
Positive(v) == v # NaN /\ v[1] > 0

\* df.shift(window): the value `window` rows earlier
Shifted(col, k, window) == IF k > window THEN col[k - window] ELSE NaN

GrowthCell(col, k, window) ==
    LET start == Shifted(col, k, window)
    IN  IF Positive(col[k]) /\ Positive(start)
        THEN <<col[k][1], start[1]>>
        ELSE NaN

ComputeGrowthRate(df, window) ==
    IF DFEmpty(df) \/ Len(df.index) < window THEN EmptyDF
    ELSE [index |-> df.index, columns |-> df.columns,
          cell  |-> [c \in df.columns |->
                        [k \in 1..Len(df.index) |-> GrowthCell(df.cell[c], k, window)]]]

\* ------------------------------------------------------------------------
\* CONFIGURATION and catalog
\* ------------------------------------------------------------------------
CACHE_MAX_AGE_HOURS == 24
max_workers == 12

\* the policy clusters, scaled down to two clusters and three indicators
CLUSTERS == << <<"co2_emissions", "renewable_energy">>, <<"gdp_growth">> >>

RECURSIVE Flatten(_)
Flatten(ss) == IF Len(ss) = 0 THEN <<>> ELSE Head(ss) \o Flatten(Tail(ss))

IndicatorSeq == Flatten(CLUSTERS)
INDICATORS == {IndicatorSeq[k] : k \in 1..Len(IndicatorSeq)}

Loaders == {"t1", "t2"}      \* coroutines that may call load_all()

\* ------------------------------------------------------------------------
\* Contents: what a raw_data / cache slot of one indicator holds
\* ------------------------------------------------------------------------
List(recs) == [kind |-> "list", recs |-> recs]
Falsy   == [kind |-> "falsy",   recs |-> <<>>]   \* null, 0, "", {} in the cache file
Garbage == [kind |-> "garbage", recs |-> <<>>]   \* a string, a number, a list of non-records

\* ------------------------------------------------------------------------
\* CACHE LAYER
\* ------------------------------------------------------------------------
AbsentFile  == [kind |-> "absent",  ts |-> None, data |-> <<>>]
CorruptFile == [kind |-> "corrupt", ts |-> None, data |-> <<>>]  \* read or parse raises
JsonFile(ts, data) == [kind |-> "json", ts |-> ts, data |-> data]

NoCache == [hit |-> FALSE, data |-> <<>>]

\* age_hours > CACHE_MAX_AGE_HOURS, with age_hours = (time.time() - ts) / 3600
Expired(ts, t) == (t - ts) > CACHE_MAX_AGE_HOURS * 3600

\* _load_cache(): None, or the parsed dict (always truthy: it holds "_meta")
LoadCache(file, t) ==
    IF file.kind = "absent" THEN NoCache
    ELSE IF file.kind = "corrupt" THEN NoCache
    ELSE LET ts == IF file.ts = None THEN 0 ELSE file.ts[1]
         IN  IF Expired(ts, t) THEN NoCache
             ELSE [hit |-> TRUE, data |-> file.data]

\* mutant: indicators without records are left out of the cache file
SaveCache_DropEmpty(data, t) ==
    JsonFile(<<t>>, [n \in {m \in DOMAIN data : data[m] # List(<<>>)} |-> data[n]])

\* _save_cache(data): {"_meta": {"timestamp": time.time()}} updated with data
SaveCache(data, t) == JsonFile(<<t>>, data)

\* ------------------------------------------------------------------------
\* EXTRACT
\* ------------------------------------------------------------------------
Ok(recs) == [kind |-> "ok", body |-> recs]
Failure(k) == [kind |-> k, body |-> <<>>]
FailureKinds == {"timeout", "http_error", "bad_envelope"}

\* _fetch_indicator_sync: payload[1] of a well-formed envelope, [] otherwise
FetchIndicatorSync(resp) ==
    IF resp.kind \in {"timeout", "http_error"} THEN <<>>   \* except Exception
    ELSE IF resp.kind = "ok" THEN resp.body                \* return payload[1]
    ELSE <<>>                                              \* falls through

\* ------------------------------------------------------------------------
\* LOAD: pieces of load_all
\* ------------------------------------------------------------------------
\* mutant: the early return is missing
AlreadyLoaded_Never(flag) == FALSE

\* if self._loaded: return
AlreadyLoaded(flag) == flag

\* names of the cache branch: hits, then the missing ones
CacheHits(c) == SelectSeq(IndicatorSeq, LAMBDA n : n \in DOMAIN c.data)

\* mutant: a fresh cache does not spare any request
Missing_All(c) == IndicatorSeq

Missing(c) == SelectSeq(IndicatorSeq, LAMBDA n : n \notin DOMAIN c.data)

\* insertion order of raw_data at the end of the cycle
RawOrder(c) == IF c.hit THEN CacheHits(c) \o Missing(c) ELSE IndicatorSeq

\* mutant: the pool starts a thread for every work item
WorkerFree_Unbounded(nrunning) == TRUE

\* a worker thread is free to take the next work item
WorkerFree(nrunning) == nrunning < max_workers

\* mutant: the k-th task is given the k-th result to arrive
GatherResults_ByCompletion(tsk, res, order) ==
    [k \in 1..Len(tsk) |-> <<tsk[k], res[order[k]]>>]

\* number of queued work items the pool starts at once: one thread per item
\* while a worker is free
RECURSIVE StartCount(_, _)
StartCount(nqueued, nrunning) ==
    IF nqueued > 0 /\ WorkerFree(nrunning)
    THEN 1 + StartCount(nqueued - 1, nrunning + 1)
    ELSE 0

\* the executor after submit() or after a thread became free: the oldest
\* work items go to the free threads
Dispatch(queue, run) ==
    LET k == StartCount(Len(queue), Cardinality(run))
    IN  [queue |-> SubSeq(queue, k + 1, Len(queue)),
         run   |-> run \cup {queue[j] : j \in 1..k}]

\* asyncio.gather(*tasks): (name, records) of every task, in task order
GatherResults(tsk, res, order) ==
    [k \in 1..Len(tsk) |-> <<tsk[k], res[tsk[k]]>>]

\* for name, records in results: raw_data[name] = records
MergeResults(raw, gathered) ==
    LET got == {gathered[k][1] : k \in 1..Len(gathered)}
        last(n) == SetMax({k \in 1..Len(gathered) : gathered[k][1] = n})
    IN  [n \in (DOMAIN raw) \cup got |->
            IF n \in got THEN gathered[last(n)][2] ELSE raw[n]]

\* _records_to_dataframe on a content: garbage raises inside the record loop
TransformRaises(content) == content.kind = "garbage"
TransformOf(content) ==
    IF content.kind = "list" THEN Records2DF(content.recs)
    ELSE [df |-> EmptyDF, names |-> <<>>]        \* `if not records`

\* number of raw_data items the transform loop completes before it ends
Processed(raw, order) ==
    LET bad == {k \in 1..Len(order) : TransformRaises(raw[order[k]])}
    IN  IF bad = {} THEN Len(order) ELSE SetMin(bad) - 1

\* self._country_names.update(names), item after item
RECURSIVE UpdateNames(_, _, _, _)
UpdateNames(reg, raw, order, n) ==
    IF n = 0 THEN reg
    ELSE LET before == UpdateNames(reg, raw, order, n - 1)
             names  == TransformOf(raw[order[n]]).names
         IN  [c \in (DOMAIN before) \cup (DOMAIN names) |->
                 IF c \in DOMAIN names THEN names[c] ELSE before[c]]

\* self._dataframes[name] = df for the processed items
UpdateFrames(frames, raw, order, n) ==
    LET done == {order[k] : k \in 1..n}
    IN  [name \in (DOMAIN frames) \cup done |->
            IF name \in done THEN TransformOf(raw[name]).df ELSE frames[name]]

\* self._dataframes[f"{name}_growth_5y"] for every catalog indicator
UpdateGrowth(frames) ==
    [name \in INDICATORS |->
        ComputeGrowthRate(IF name \in DOMAIN frames THEN frames[name] ELSE EmptyDF,
                          GROWTH_WINDOW)]

\* lines 335-350: transform, growth, self._loaded = True; one step, no await
Finish(l, raw, c) ==
    LET order == RawOrder(c)
        n == Processed(raw, order)
        frames == UpdateFrames(dataframes, raw, order, n)
    IN  /\ dataframes' = frames
        /\ country_names' = UpdateNames(country_names, raw, order, n)
        /\ IF n = Len(order)
           THEN /\ growthframes' = UpdateGrowth(frames)
                /\ loaded' = TRUE
                /\ outcome' = [outcome EXCEPT ![l] = "loaded"]
           ELSE /\ UNCHANGED <<growthframes, loaded>>
                /\ outcome' = [outcome EXCEPT ![l] = "raised"]

\* tasks = [self._fetch_indicator(...)]; await asyncio.gather(*tasks):
\* every task hands its request to the executor, the coroutine suspends
Submit(l, names) ==
    /\ tasks' = [tasks EXCEPT ![l] = names]
    /\ results' = [results EXCEPT ![l] = <<>>]
    /\ doneOrder' = [doneOrder EXCEPT ![l] = <<>>]
    /\ LET d == Dispatch(workQueue \o [k \in 1..Len(names) |-> <<l, names[k]>>],
                          running)
       IN  /\ workQueue' = d.queue
           /\ running' = d.run
    /\ pc' = [pc EXCEPT ![l] = "awaiting"]

CountIssued(iss, names) ==
    [n \in INDICATORS |->
        iss[n] + Cardinality({k \in 1..Len(names) : names[k] = n})]

NoneIssued == [n \in INDICATORS |-> 0]

Restrict(f, S) == [x \in S \cap DOMAIN f |-> f[x]]

\* ------------------------------------------------------------------------
\* Sample data: provider answers and cache contents
\* ------------------------------------------------------------------------
StartTime == 100 * 3600       \* the clock at the start, past any missing timestamp
TickSeconds == 12 * 3600      \* the clock advances by 12 hours

ProviderSample(n) ==
    IF n = "co2_emissions" THEN
        << Rec("WLD", <<2000>>, <<5>>, "World"),
           Rec("USA", <<2000>>, <<10>>, "United States"),
           Rec("USA", <<2001>>, None, "United States"),
           Rec("USA", <<2002>>, <<20>>, "United States"),
           Rec("KOR", <<2000>>, <<3>>, NON_DICT),
           Rec("KOR", <<2001>>, <<4>>, "Korea, Rep.") >>
    ELSE IF n = "renewable_energy" THEN
        << Rec("USA", <<2000>>, <<5>>, "USA"),
           Rec("FRA", None, <<6>>, "France"),
           Rec("FRA", <<2000>>, <<7>>, NO_VALUE) >>
    ELSE
        [k \in 1..6 |-> Rec("USA", <<1999 + k>>,
                            IF k = 3 THEN <<0>> ELSE <<100 * k>>, "United States")]

CachedSample(n) ==
    IF n = "co2_emissions" THEN
        << Rec("USA", <<2000>>, <<11>>, "United States of America") >>
    ELSE IF n = "renewable_energy" THEN
        << Rec("USA", <<2000>>, <<6>>, "U.S.") >>
    ELSE
        << Rec("KOR", <<2000>>, <<2>>, "Korea") >>

\* the requests of the indicators of `failing` fail in the way `kind`
Answer(failing, kind) ==
    [n \in INDICATORS |->
        IF n \in failing THEN Failure(kind) ELSE Ok(ProviderSample(n))]

\* no request fails, one fails in each of the ways, a whole cluster fails,
\* all fail
ProviderAnswers ==
    {Answer(failing, "timeout") :
        failing \in {{}, {"co2_emissions", "renewable_energy"}, INDICATORS}}
    \cup {Answer({"gdp_growth"}, kind) : kind \in FailureKinds}

FullData == [n \in INDICATORS |-> List(CachedSample(n))]

\* cache data whose every entry is a record list
WellFormedData ==
    {[n \in S |-> List(CachedSample(n))] :
        S \in {{}, {"co2_emissions"}, {"co2_emissions", "gdp_growth"}, INDICATORS}}

\* cache data in which one entry holds something else
OddContents == {List(<<>>), Falsy, Garbage}

OddData ==
    {[n \in {"co2_emissions"} |-> x] : x \in OddContents}
    \cup {[FullData EXCEPT !["renewable_energy"] = Garbage]}

\* written 24 hours before the start, a moment ago, or without a timestamp
InitialFiles ==
    {AbsentFile, CorruptFile, JsonFile(None, FullData),
     JsonFile(<<StartTime - CACHE_MAX_AGE_HOURS * 3600>>, FullData)}
    \cup {JsonFile(<<StartTime>>, d) : d \in WellFormedData \cup OddData}

\* ------------------------------------------------------------------------
\* PUBLIC DATA ACCESS: the facade over self._dataframes and
\* self._country_names
\* ------------------------------------------------------------------------
\* a call returns a value or raises
Returns(v) == [raised |-> FALSE, value |-> v]
Raises == [raised |-> TRUE, value |-> <<>>]

\* f"{name}_growth_5y"
GrowthKey(name) == name \o "_growth_5y"

\* self._dataframes as the one dict it is: base keys and growth keys
AllFrames(frames, growth) ==
    [key \in (DOMAIN frames) \cup {GrowthKey(n) : n \in DOMAIN growth} |->
        IF key \in DOMAIN frames THEN frames[key]
        ELSE growth[CHOOSE n \in DOMAIN growth : GrowthKey(n) = key]]

\* self._dataframes.get(indicator, pd.DataFrame())
GetIndicatorDF(d, indicator) ==
    IF indicator \in DOMAIN d THEN d[indicator] ELSE EmptyDF

\* self._country_names.get(iso3, iso3)
GetCountryName(names, iso3) ==
    IF iso3 \in DOMAIN names THEN names[iso3] ELSE iso3

\* columns of every non-empty table
GetAllCountries(d) ==
    UNION {d[key].columns : key \in {k \in DOMAIN d : ~DFEmpty(d[k])}}

\* df[iso3]: the column as (year, value) pairs; KeyError for an unknown label
Column(df, iso3) ==
    IF iso3 \in df.columns
    THEN Returns([k \in 1..Len(df.index) |-> <<df.index[k], df.cell[iso3][k]>>])
    ELSE Raises

\* series.dropna()
DropNA(series) == SelectSeq(series, LAMBDA p : p[2] # NaN)

\* series.iloc[-1]: IndexError on an empty series
ILocLast(series) ==
    IF Len(series) = 0 THEN Raises ELSE Returns(series[Len(series)][2])

\* mutant: get_country_series indexes the table without looking
NoSuchSeries_Never(df, iso3) == FALSE

\* df.empty or iso3 not in df.columns
NoSuchSeries(df, iso3) == DFEmpty(df) \/ iso3 \notin df.columns

GetCountrySeries(d, iso3, indicator) ==
    LET df == GetIndicatorDF(d, indicator)
    IN  IF NoSuchSeries(df, iso3) THEN Returns(<<>>)     \* pd.Series(dtype=float)
        ELSE LET col == Column(df, iso3)
             IN  IF col.raised THEN Raises ELSE Returns(DropNA(col.value))

\* col.dropna().iloc[-1] if not col.dropna().empty else np.nan
LastValid(col) ==
    LET S == {k \in 1..Len(col) : col[k] # NaN}
    IN  IF S = {} THEN NaN ELSE col[SetMax(S)]

GetLatestValues(d, indicator) ==
    LET df == GetIndicatorDF(d, indicator)
    IN  IF DFEmpty(df) THEN Returns(<<>>)                 \* pd.Series(dtype=float)
        ELSE Returns([c \in df.columns |-> LastValid(df.cell[c])])

\* float(series.iloc[-1]) if not series.empty else None
LastOrNone(series) ==
    IF Len(series) # 0 THEN ILocLast(series) ELSE Returns(None)

\* country codes in sorted() order
SortedCodes == <<"FRA", "KOR", "USA", "ZZZ">>

SnapshotRow(d, names, iso3) ==
    LET cell(n) == LET s == GetCountrySeries(d, iso3, n)
                   IN  IF s.raised THEN Raises ELSE LastOrNone(s.value)
    IN  IF \E n \in INDICATORS : cell(n).raised THEN Raises
        ELSE Returns([iso3 |-> iso3,
                      country |-> GetCountryName(names, iso3),
                      values |-> [n \in INDICATORS |-> cell(n).value]])

BuildMasterSnapshot(d, names) ==
    LET all == GetAllCountries(d)
        countries == SelectSeq(SortedCodes, LAMBDA c : c \in all)
        row(k) == SnapshotRow(d, names, countries[k])
    IN  IF \E k \in 1..Len(countries) : row(k).raised THEN Raises
        ELSE Returns([k \in 1..Len(countries) |-> row(k).value])

\* {"current": ..., "history": ..., "growth_5y": ...} of one indicator
ProfileEntry(d, iso3, ind_name) ==
    LET series == GetCountrySeries(d, iso3, ind_name)
        growth_series == GetCountrySeries(d, iso3, GrowthKey(ind_name))
        current == IF series.raised THEN Raises ELSE LastOrNone(series.value)
        growth_5y == IF growth_series.raised THEN Raises
                     ELSE LastOrNone(growth_series.value)
    IN  IF series.raised \/ current.raised \/ growth_5y.raised THEN Raises
        ELSE Returns([current |-> current.value,
                      history |-> series.value,
                      growth_5y |-> growth_5y.value])

ClusterNames(k) == {CLUSTERS[k][j] : j \in 1..Len(CLUSTERS[k])}

GetCountryProfileV2(d, names, iso3) ==
    LET entry(n) == ProfileEntry(d, iso3, n)
    IN  IF \E n \in INDICATORS : entry(n).raised THEN Raises
        ELSE Returns([iso3 |-> iso3,
                      name |-> GetCountryName(names, iso3),
                      data |-> [k \in 1..Len(CLUSTERS) |->
                                   [n \in ClusterNames(k) |-> entry(n).value]]])

\* ---- a reader calling the facade ----
Call(op, iso3, indicator) == [op |-> op, iso3 |-> iso3, indicator |-> indicator]
NoCall == Call("none", "", "")
NoResult == Returns(<<>>)

QueryCodes == {"USA", "ZZZ"}
QueryKeys == {"co2_emissions", GrowthKey("gdp_growth"), "no_such_indicator"}

QueryCalls ==
    {Call("series", c, i) : c \in QueryCodes, i \in QueryKeys \ {GrowthKey("gdp_growth")}}
    \cup {Call("series", "KOR", GrowthKey("gdp_growth"))}
    \cup {Call("latest", "", i) : i \in QueryKeys}
    \cup {Call("profile", c, "") : c \in QueryCodes}
    \cup {Call("snapshot", "", "")}

FacadeResult(d, names, call) ==
    IF call.op = "series" THEN GetCountrySeries(d, call.iso3, call.indicator)
    ELSE IF call.op = "latest" THEN GetLatestValues(d, call.indicator)
    ELSE IF call.op = "profile" THEN GetCountryProfileV2(d, names, call.iso3)
    ELSE BuildMasterSnapshot(d, names)

\* a facade accessor runs from call to return on the current tables
Query(call) ==
    /\ q_call' = call
    /\ q_result' = FacadeResult(AllFrames(dataframes, growthframes),
                                country_names, call)
    /\ UNCHANGED <<tvars, cvars, countvars, gvars>>

\* no facade call is in progress
QIdle ==
    /\ q_call = NoCall
    /\ q_result = NoResult

\* the reader's call has returned by the time another step runs
QReturned ==
    /\ q_call' = NoCall
    /\ q_result' = NoResult

\* detect_green_growth is not running
GIdle ==
    /\ co2_growth = <<>>
    /\ gdp_growth = <<>>
    /\ top_n = 0
    /\ g_stage = "input"
    /\ rankings = <<>>

\* ------------------------------------------------------------------------
\* The collector
\* ------------------------------------------------------------------------
CInit ==
    /\ now = StartTime
    /\ cacheFile \in InitialFiles
    /\ provider \in ProviderAnswers
    /\ dataframes = <<>>
    /\ growthframes = <<>>
    /\ country_names = <<>>
    /\ loaded = FALSE
    /\ workQueue = <<>>
    /\ running = {}
    /\ pc = [l \in Loaders |-> "idle"]
    /\ cached = [l \in Loaders |-> NoCache]
    /\ raw_data = [l \in Loaders |-> <<>>]
    /\ stage = [l \in Loaders |-> 0]
    /\ tasks = [l \in Loaders |-> <<>>]
    /\ results = [l \in Loaders |-> <<>>]
    /\ doneOrder = [l \in Loaders |-> <<>>]
    /\ issued = [l \in Loaders |-> NoneIssued]
    /\ saves = [l \in Loaders |-> 0]
    /\ outcome = [l \in Loaders |-> "none"]
    /\ reordered = [l \in Loaders |-> FALSE]
    /\ calls = 0
    /\ ticks = 0
    /\ invalidated = FALSE

\* mutant: _save_cache inside the loop over the clusters
SaveAfterCluster_EveryCluster(k) == TRUE

\* _save_cache(raw_data) of line 333 comes after the loop over all clusters
SaveAfterCluster(k) == k = Len(CLUSTERS)

\* load_all(), from the call to its first suspension (or to its end)
LoadAll(l) ==
    /\ pc[l] = "idle"
    /\ calls < MaxCalls
    /\ calls' = calls + 1
    /\ invalidated' = FALSE
    /\ reordered' = [reordered EXCEPT ![l] = FALSE]
    /\ UNCHANGED <<tvars, countvars, gvars>>
    /\ QReturned
    /\ UNCHANGED <<envvars, ticks>>
    /\ IF AlreadyLoaded(loaded)
       THEN /\ outcome' = [outcome EXCEPT ![l] = "noop"]
            /\ issued' = [issued EXCEPT ![l] = NoneIssued]
            /\ saves' = [saves EXCEPT ![l] = 0]
            /\ UNCHANGED <<selfvars, poolvars, loadvars>>
       ELSE LET c == LoadCache(cacheFile, now)
                raw == IF c.hit THEN Restrict(c.data, INDICATORS) ELSE <<>>
                todo == IF c.hit THEN Missing(c) ELSE CLUSTERS[1]
            IN  /\ cached' = [cached EXCEPT ![l] = c]
                /\ raw_data' = [raw_data EXCEPT ![l] = raw]
                /\ stage' = [stage EXCEPT ![l] = IF c.hit THEN 0 ELSE 1]
                /\ saves' = [saves EXCEPT ![l] = 0]
                /\ issued' = [issued EXCEPT ![l] = CountIssued(NoneIssued, todo)]
                /\ IF Len(todo) > 0
                   THEN /\ Submit(l, todo)
                        /\ outcome' = [outcome EXCEPT ![l] = "pending"]
                        /\ UNCHANGED selfvars
                   ELSE /\ Finish(l, raw, c)          \* full cache hit
                        /\ UNCHANGED <<poolvars, pc, tasks, results, doneOrder>>

\* _fetch_indicator_sync returns in its thread; _fetch_indicator returns
WorkerFinish(item) ==
    /\ item \in running
    /\ LET l == item[1]
           n == item[2]
           recs == List(FetchIndicatorSync(provider[n]))
       IN  /\ results' = [results EXCEPT ![l] =
                            [m \in (DOMAIN results[l]) \cup {n} |->
                                IF m = n THEN recs ELSE results[l][m]]]
           /\ doneOrder' = [doneOrder EXCEPT ![l] = Append(doneOrder[l], n)]
    /\ LET d == Dispatch(workQueue, running \ {item})
       IN  /\ workQueue' = d.queue
           /\ running' = d.run
    /\ UNCHANGED <<tvars, countvars, gvars>>
    /\ QReturned
    /\ UNCHANGED <<envvars, selfvars, obsvars>>
    /\ UNCHANGED <<pc, cached, raw_data, stage, tasks>>

GatherDone(l) ==
    /\ pc[l] = "awaiting"
    /\ Len(doneOrder[l]) = Len(tasks[l])

\* load_all() resumes after asyncio.gather and runs to its next suspension
\* or to its end
Resume(l) ==
    /\ GatherDone(l)
    /\ LET raw == MergeResults(raw_data[l],
                               GatherResults(tasks[l], results[l], doneOrder[l]))
           more == stage[l] # 0 /\ stage[l] < Len(CLUSTERS)
           save == stage[l] = 0 \/ SaveAfterCluster(stage[l])
       IN  /\ raw_data' = [raw_data EXCEPT ![l] = raw]
           /\ IF save
              THEN /\ cacheFile' = SaveCache(raw, now)
                   /\ saves' = [saves EXCEPT ![l] = saves[l] + 1]
              ELSE UNCHANGED <<cacheFile, saves>>
           /\ IF more
              THEN /\ stage' = [stage EXCEPT ![l] = stage[l] + 1]
                   /\ Submit(l, CLUSTERS[stage[l] + 1])
                   /\ issued' = [issued EXCEPT ![l] =
                                    CountIssued(issued[l], CLUSTERS[stage[l] + 1])]
                   /\ UNCHANGED <<selfvars, outcome>>
              ELSE /\ Finish(l, raw, cached[l])
                   /\ pc' = [pc EXCEPT ![l] = "idle"]
                   \* the locals of the call are gone
                   /\ tasks' = [tasks EXCEPT ![l] = <<>>]
                   /\ results' = [results EXCEPT ![l] = <<>>]
                   /\ doneOrder' = [doneOrder EXCEPT ![l] = <<>>]
                   /\ UNCHANGED <<stage, poolvars, issued>>
    /\ reordered' = [reordered EXCEPT ![l] = reordered[l] \/ doneOrder[l] # tasks[l]]
    /\ UNCHANGED <<tvars, countvars, gvars>>
    /\ QReturned
    /\ UNCHANGED <<now, provider, cached, calls, ticks, invalidated>>

\* invalidate_cache()
InvalidateCache ==
    /\ dataframes' = <<>>
    /\ growthframes' = <<>>
    /\ country_names' = <<>>
    /\ loaded' = FALSE
    /\ invalidated' = TRUE
    /\ UNCHANGED <<tvars, countvars, gvars>>
    /\ QReturned
    /\ UNCHANGED <<envvars, poolvars, loadvars>>
    /\ UNCHANGED <<issued, saves, outcome, reordered, calls, ticks>>

\* time passes
Tick ==
    /\ ticks < MaxTicks
    /\ ticks' = ticks + 1
    /\ now' = now + TickSeconds
    /\ UNCHANGED <<tvars, countvars, gvars>>
    /\ QReturned
    /\ UNCHANGED <<cacheFile, provider, selfvars, poolvars, loadvars>>
    /\ UNCHANGED <<issued, saves, outcome, reordered, calls, invalidated>>

\* the transform pipeline is at rest while the collector runs
TIdle ==
    /\ t_records = <<>>
    /\ t_stage = "input"
    /\ t_table = EmptyDF
    /\ t_names = <<>>
    /\ t_growth = EmptyDF

\* the counted executor is at rest
PIdle ==
    /\ pool_queued = 0
    /\ pool_running = 0

Init == TIdle /\ PIdle /\ QIdle /\ GIdle /\ CInit

Next ==
    \/ \E l \in Loaders : LoadAll(l)
    \/ \E item \in running : WorkerFinish(item)
    \/ \E l \in Loaders : Resume(l)
    \/ InvalidateCache
    \/ Tick

Spec == Init /\ [][Next]_vars

\* ------------------------------------------------------------------------
\* Specification of the collector with a reader: facade calls interleave
\* with the steps of load_all() and invalidate_cache() on the one event loop
\* ------------------------------------------------------------------------
ReaderFiles ==
    {AbsentFile,
     JsonFile(<<StartTime>>, [n \in {"co2_emissions"} |-> List(CachedSample(n))]),
     JsonFile(<<StartTime>>, [FullData EXCEPT !["renewable_energy"] = Garbage])}

ReaderAnswers == {Answer({}, "timeout"), Answer({"gdp_growth"}, "timeout")}

FInit ==
    /\ Init
    /\ cacheFile \in ReaderFiles
    /\ provider \in ReaderAnswers

FNext ==
    \/ \E l \in Loaders : LoadAll(l)
    \/ \E item \in running : WorkerFinish(item)
    \/ \E l \in Loaders : Resume(l)
    \/ InvalidateCache
    \/ \E call \in QueryCalls : Query(call)

SpecFacade == FInit /\ [][FNext]_vars

\* the collector at rest
CIdle ==
    /\ now = StartTime
    /\ cacheFile = AbsentFile
    /\ provider = Answer({}, "timeout")
    /\ dataframes = <<>>
    /\ growthframes = <<>>
    /\ country_names = <<>>
    /\ loaded = FALSE
    /\ workQueue = <<>>
    /\ running = {}
    /\ pc = [l \in Loaders |-> "idle"]
    /\ cached = [l \in Loaders |-> NoCache]
    /\ raw_data = [l \in Loaders |-> <<>>]
    /\ stage = [l \in Loaders |-> 0]
    /\ tasks = [l \in Loaders |-> <<>>]
    /\ results = [l \in Loaders |-> <<>>]
    /\ doneOrder = [l \in Loaders |-> <<>>]
    /\ issued = [l \in Loaders |-> NoneIssued]
    /\ saves = [l \in Loaders |-> 0]
    /\ outcome = [l \in Loaders |-> "none"]
    /\ reordered = [l \in Loaders |-> FALSE]
    /\ calls = 0
    /\ ticks = 0
    /\ invalidated = FALSE

\* ------------------------------------------------------------------------
\* Specification of the transform pipeline: bounded record grids
\* ------------------------------------------------------------------------
CellChoices == {"null", "nonpos", "pos"}

GridValue(ch, k) ==
    IF ch = "null" THEN None
    ELSE IF ch = "nonpos" THEN <<0>>
    ELSE <<420 * k>>

\* country USA takes the chosen cells; country KOR is observed in every year
\* but `hole`; one aggregate record and one record without a year lead the list
GridRecords(n, colA, hole) ==
    << Rec("WLD", <<2000 + 1>>, <<7>>, "World"),
       Rec("USA", None, <<7>>, "nowhere") >>
    \o [k \in 1..n |-> Rec("USA", <<2000 + k>>, GridValue(colA[k], k), "United States")]
    \o [k \in 1..n |-> Rec("KOR", <<2000 + k>>,
                           IF k = hole THEN None ELSE <<420>>, "Korea, Rep.")]

TInit ==
    /\ \E n \in 1..MaxYears :
         \E colA \in [1..n -> CellChoices] :
           \E hole \in 0..n :
             t_records = GridRecords(n, colA, hole)
    /\ t_stage = "input"
    /\ t_table = EmptyDF
    /\ t_names = <<>>
    /\ t_growth = EmptyDF
    /\ CIdle
    /\ PIdle
    /\ QIdle
    /\ GIdle

TTransform ==
    /\ t_stage = "input"
    /\ LET r == Records2DF(t_records)
       IN  /\ t_table' = r.df
           /\ t_names' = r.names
    /\ t_stage' = "table"
    /\ UNCHANGED <<t_records, t_growth, cvars, countvars, qvars, gvars>>

TGrowth ==
    /\ t_stage = "table"
    /\ t_growth' = ComputeGrowthRate(t_table, GROWTH_WINDOW)
    /\ t_stage' = "growth"
    /\ UNCHANGED <<t_records, t_table, t_names, cvars, countvars, qvars, gvars>>

TNext == TTransform \/ TGrowth

SpecTransform == TInit /\ [][TNext]_vars

\* ------------------------------------------------------------------------
\* Specification of the executor under the full catalog: the 57 indicators
\* of the catalog, two callers, work items counted instead of named
\* ------------------------------------------------------------------------
NumCatalog == 57             \* len(INDICATORS)

\* a gather of n tasks hands n work items to the executor
PoolSubmit(n) ==
    /\ pool_queued + pool_running + n <= NumCatalog * Cardinality(Loaders)
    /\ LET k == StartCount(pool_queued + n, pool_running)
       IN  /\ pool_queued' = pool_queued + n - k
           /\ pool_running' = pool_running + k
    /\ UNCHANGED <<tvars, cvars, qvars, gvars>>

\* a request returns and its thread takes the next work item
PoolFinish ==
    /\ pool_running > 0
    /\ LET k == StartCount(pool_queued, pool_running - 1)
       IN  /\ pool_queued' = pool_queued - k
           /\ pool_running' = pool_running - 1 + k
    /\ UNCHANGED <<tvars, cvars, qvars, gvars>>

PInit == TIdle /\ CIdle /\ PIdle /\ QIdle /\ GIdle

PNext ==
    \/ \E n \in 1..NumCatalog : PoolSubmit(n)
    \/ PoolFinish

SpecPool == PInit /\ [][PNext]_vars

\* ------------------------------------------------------------------------
\* ANALYTICS: detect_green_growth (logic/analytics.py)
\* Growth values are fractions counted in units of 0.00001; the returned
\* figures are percentages counted in units of 0.01.
\* ------------------------------------------------------------------------
\* round(x * 100, 2) of a fraction x: to the nearest 0.01 percent, halves to
\* the even neighbour
RoundPercent(v) ==
    LET q == v \div 10
        r == v % 10
    IN  IF r < 5 THEN q
        ELSE IF r > 5 THEN q + 1
        ELSE IF q % 2 = 0 THEN q ELSE q + 1

\* pd.DataFrame({"co2_growth": ..., "gdp_growth": ...}).dropna(): the
\* countries with a value in both series
Combined(co2, gdp) ==
    {c \in (DOMAIN co2) \cap (DOMAIN gdp) : co2[c] # NaN /\ gdp[c] # NaN}

\* mutant: the CO2 condition is missing
IsGreen_AnyCO2(gdp_value, co2_value) == gdp_value > 0

\* (combined["gdp_growth"] > 0) & (combined["co2_growth"] < 0)
IsGreen(gdp_value, co2_value) == gdp_value > 0 /\ co2_value < 0

Green(co2, gdp) ==
    {c \in Combined(co2, gdp) : IsGreen(gdp[c][1], co2[c][1])}

\* green["gdp_growth"] - green["co2_growth"]
DecouplingScore(co2, gdp, c) == gdp[c][1] - co2[c][1]

\* green.sort_values("decoupling_score", ascending=False): the orders of the
\* green countries with no score before a higher one; the order of equal
\* scores is left to the sort
SortedOrders(co2, gdp) ==
    LET S == Green(co2, gdp)
        n == Cardinality(S)
    IN  {o \in [1..n -> S] :
            /\ \A i, j \in 1..n : i # j => o[i] # o[j]
            /\ \A i, j \in 1..n :
                  i < j => DecouplingScore(co2, gdp, o[i])
                               >= DecouplingScore(co2, gdp, o[j])}

\* green.head(top_n), top_n >= 0
HeadOf(order, n) == SubSeq(order, 1, IF n < Len(order) THEN n ELSE Len(order))

GreenEntry(co2, gdp, names, iso3, rank) ==
    [rank |-> rank,
     iso3 |-> iso3,
     country |-> GetCountryName(names, iso3),
     gdp_growth_5y |-> RoundPercent(gdp[iso3][1]),
     co2_growth_5y |-> RoundPercent(co2[iso3][1]),
     decoupling_score |-> RoundPercent(DecouplingScore(co2, gdp, iso3))]

\* the list detect_green_growth returns when the sort gives `order`
DetectGreenGrowthOf(co2, gdp, names, n, order) ==
    IF Green(co2, gdp) = {} THEN <<>>                    \* if green.empty
    ELSE LET top == HeadOf(order, n)
         IN  [k \in 1..Len(top) |-> GreenEntry(co2, gdp, names, top[k], k)]

\* ---- bounded inputs ----
MaxTopN == 3           \* largest top_n of a call

GreenNames == [c \in {"A", "B"} |-> IF c = "A" THEN "Aland" ELSE "Bland"]

GreenIndexes == {{"A", "B"}, {"A", "B", "C"}}
CO2Values == {NaN, <<0 - 2000>>, <<0 - 1000>>, <<5>>}
GDPValues == {NaN, <<0 - 1000>>, <<0>>, <<2004>>, <<3000>>}

GInit ==
    /\ \E D \in GreenIndexes : co2_growth \in [D -> CO2Values]
    /\ \E D \in GreenIndexes : gdp_growth \in [D -> GDPValues]
    /\ top_n \in 0..MaxTopN
    /\ g_stage = "input"
    /\ rankings = <<>>
    /\ TIdle
    /\ PIdle
    /\ QIdle
    /\ CIdle

DetectGreenGrowth ==
    /\ g_stage = "input"
    /\ \E order \in SortedOrders(co2_growth, gdp_growth) :
          rankings' = DetectGreenGrowthOf(co2_growth, gdp_growth, GreenNames,
                                          top_n, order)
    /\ g_stage' = "ranked"
    /\ UNCHANGED <<co2_growth, gdp_growth, top_n, tvars, cvars, countvars, qvars>>

GNext == DetectGreenGrowth

SpecGreen == GInit /\ [][GNext]_vars

\* ========================================================================
\* Properties
\* ========================================================================

\* the step in which a load_all() call of caller l ends
Ends(l) == (LoadAll(l) \/ Resume(l)) /\ outcome'[l] \in {"noop", "loaded", "raised"}

\* the step in which a load cycle of caller l ends LOADED
Completes(l) == (LoadAll(l) \/ Resume(l)) /\ outcome'[l] = "loaded"

\* a cycle of caller l was started and `cached`, `issued`, `saves` describe it
InCycle(l) == outcome[l] \in {"pending", "loaded", "raised"}
CycleOver(l) == outcome[l] \in {"loaded", "raised"}

IsFailure(resp) == resp.kind # "ok"

\* the content a cycle of caller l holds for indicator n: the cached entry if
\* the cache was used and has one, else what the provider's answer yields
Source(c, n) ==
    IF c.hit /\ n \in DOMAIN c.data THEN c.data[n]
    ELSE List(FetchIndicatorSync(provider[n]))

Requested(l) == {n \in INDICATORS : issued[l][n] > 0}

\* requests of caller l that were submitted and have not returned
Outstanding(l, queue, run) ==
    {n \in INDICATORS :
        <<l, n>> \in run \/ \E k \in 1..Len(queue) : queue[k] = <<l, n>>}

\* ---- C1 ---------------------------------------------------------------
\* C1: a load_all() call made while the collector is LOADED submits no
\* request and leaves the tables, the growth tables, the country registry
\* and the LOADED flag as they are.
C1_LoadedLoadIsNoop ==
    [][\A l \in Loaders :
          (LoadAll(l) /\ loaded) =>
              /\ UNCHANGED <<dataframes, growthframes, country_names, loaded>>
              /\ UNCHANGED <<workQueue, running, cacheFile>>
              /\ issued'[l] = NoneIssued]_vars

\* a second call returned at once on a collector that holds tables
C1_Witness ==
    \E l \in Loaders :
        /\ outcome[l] = "noop"
        /\ loaded
        /\ calls >= 2
        /\ \E n \in DOMAIN dataframes : ~DFEmpty(dataframes[n])

\* ---- C2 ---------------------------------------------------------------
\* C2: whatever requests fail, load_all() never raises and ends LOADED; a
\* failed indicator has an empty record list and an empty table, and every
\* other indicator has the table of its own records.
C2_FailuresIsolated ==
    /\ [](\A l \in Loaders : outcome[l] # "raised")
    /\ [][\A l \in Loaders :
             (Ends(l) /\ outcome'[l] # "noop") =>
                 /\ outcome'[l] = "loaded"
                 /\ \A n \in INDICATORS :
                      IF issued'[l][n] > 0 /\ IsFailure(provider[n])
                      THEN /\ raw_data'[l][n] = List(<<>>)
                           /\ dataframes'[n] = EmptyDF
                      ELSE dataframes'[n] = TransformOf(Source(cached'[l], n)).df]_vars

\* ---- C4 ---------------------------------------------------------------
\* C4: a cycle that reads a fresh cache requests exactly the catalog
\* indicators without a cache entry, once each, and the table of a cached
\* indicator is built from the cached records; a cycle that finds no usable
\* cache requests every catalog indicator, never more than once, and has
\* requested each exactly once when it ends.
C4_Requests(l) ==
    InCycle(l) =>
        IF cached[l].hit
        THEN \A n \in INDICATORS :
                issued[l][n] = IF n \in DOMAIN cached[l].data THEN 0 ELSE 1
        ELSE /\ \A n \in INDICATORS : issued[l][n] <= 1
             /\ CycleOver(l) => \A n \in INDICATORS : issued[l][n] = 1

C4_FetchesExactlyTheMissing ==
    /\ [](\A l \in Loaders : C4_Requests(l))
    /\ [][\A l \in Loaders :
             (Completes(l) /\ cached'[l].hit) =>
                 \A n \in INDICATORS \cap DOMAIN cached'[l].data :
                     dataframes'[n] = TransformOf(cached'[l].data[n]).df]_vars

\* a cycle ended LOADED on a fresh cache that had one entry and lacked others
C4_Witness ==
    \E l \in Loaders :
        /\ outcome[l] = "loaded"
        /\ cached[l].hit
        /\ issued[l]["co2_emissions"] = 0
        /\ issued[l]["gdp_growth"] = 1
        /\ "co2_emissions" \in DOMAIN dataframes
        /\ dataframes["co2_emissions"] = Records2DF(CachedSample("co2_emissions")).df
        /\ ~DFEmpty(dataframes["co2_emissions"])

\* ---- C5 ---------------------------------------------------------------
\* C5: a cycle that submitted a request calls _save_cache exactly once, not
\* before its last request has returned; the entry written holds an entry
\* for every catalog indicator (cache hits and fetched lists) under the
\* time of the write; a cycle with a full cache hit does not write, and
\* nothing else changes the cache file.
C5_Saves(l) ==
    /\ outcome[l] = "pending" => saves[l] = 0
    /\ CycleOver(l) => saves[l] = IF Requested(l) # {} THEN 1 ELSE 0

Malformed(data) ==
    \E n \in INDICATORS \cap DOMAIN data : data[n].kind # "list"

Stale(file, t) ==
    file.kind = "json" /\ (file.ts = None \/ Expired(file.ts[1], t))

Defective(file, t) ==
    \/ file.kind \in {"absent", "corrupt"}
    \/ Stale(file, t)
    \/ Malformed(file.data)

\* C6: a cache file that is absent, unparseable, without or with a too old
\* timestamp, or that holds malformed content for an indicator is a full
\* miss: the cycle uses none of its entries, requests every catalog
\* indicator, never raises and ends LOADED.
C6_DefectiveCacheIsMiss ==
    /\ [][\A l \in Loaders :
             (LoadAll(l) /\ ~loaded /\ Defective(cacheFile, now)) =>
                 /\ ~cached'[l].hit
                 /\ outcome'[l] = "pending"]_vars
    /\ [](\A l \in Loaders :
             /\ outcome[l] # "raised"
             /\ (CycleOver(l) /\ ~cached[l].hit) => Requested(l) = INDICATORS)

\* ---- C7 ---------------------------------------------------------------
\* C7: invalidate_cache() empties the tables, the growth tables and the
\* registry, sets the state to UNLOADED and leaves the cache file alone; the
\* next load_all() call after it does not return at once as a no-op.
C7_InvalidateForcesReload ==
    /\ [][InvalidateCache =>
             /\ dataframes' = <<>>
             /\ growthframes' = <<>>
             /\ country_names' = <<>>
             /\ ~loaded'
             /\ cacheFile' = cacheFile]_vars
    /\ [][\A l \in Loaders :
             (LoadAll(l) /\ invalidated) => outcome'[l] # "noop"]_vars

\* ---- C8 ---------------------------------------------------------------
\* C8: when a cycle ends LOADED, the table of every catalog indicator is the
\* transform of that indicator's own source (its cache entry or the
\* provider's answer for it) and its growth table is the growth of that
\* table, in whatever order the requests returned.
C8_OrderIndependent ==
    [][\A l \in Loaders :
          Completes(l) =>
              \A n \in INDICATORS :
                  /\ dataframes'[n] = TransformOf(Source(cached'[l], n)).df
                  /\ growthframes'[n] =
                        ComputeGrowthRate(TransformOf(Source(cached'[l], n)).df,
                                          GROWTH_WINDOW)]_vars

\* a cycle ended LOADED whose requests returned in another order than the
\* task order, with different answers
C8_Witness ==
    \E l \in Loaders :
        /\ outcome[l] = "loaded"
        /\ reordered[l]
        /\ \A n \in INDICATORS :
              /\ n \in DOMAIN dataframes
              /\ issued[l][n] = 1
              /\ ~DFEmpty(dataframes[n])

\* ---- C3 ---------------------------------------------------------------
\* C3: at most 12 requests are in flight at any moment, however many of the
\* 57 catalog indicators the callers have handed to the executor.
C3_AtMostTwelveInFlight ==
    /\ pool_running <= 12
    /\ Cardinality(running) <= 12

\* all 12 threads are busy while more than 12 further requests wait
C3_Witness ==
    /\ pool_running = 12
    /\ pool_queued > 12

\* ---- C9 ---------------------------------------------------------------
\* the pivot of the records before interpolation
RawTable == Pivot(Rows(t_records))

\* C9: a cell without an observed value is filled only if it lies between
\* two observed values of its column in a run of at most 3 missing rows;
\* cells of longer runs and cells before the first or after the last
\* observed value stay absent.
C9_FillsOnlyShortInnerGaps ==
    t_stage # "input" =>
        \A c \in t_table.columns :
            \A k \in 1..Len(t_table.index) :
                LET col == RawTable.cell[c]
                    p == PrevValid(col, k)
                    q == NextValid(col, k)
                IN  (col[k] = NaN /\ t_table.cell[c][k] # NaN) =>
                        /\ p # 0
                        /\ q # 0
                        /\ q - p - 1 <= 3

\* ---- C10 --------------------------------------------------------------
YearRow(df, y) ==
    LET S == {j \in 1..Len(df.index) : df.index[j] = y}
    IN  IF S = {} THEN 0 ELSE SetMin(S)

\* C10: the growth cell of year t is absent when t-5 is not a year of the
\* table or when the value at t or at t-5 is absent or not positive; a
\* present growth cell is computed from the values at the years t and t-5;
\* a table of fewer than 5 rows has no growth value.
C10_GrowthFromYearsTAndTMinus5 ==
    t_stage = "growth" =>
        /\ Len(t_table.index) < 5 => DFEmpty(t_growth)
        /\ ~DFEmpty(t_growth) =>
             \A c \in t_table.columns :
                 \A k \in 1..Len(t_table.index) :
                     LET j == YearRow(t_table, t_table.index[k] - 5)
                         g == t_growth.cell[c][k]
                         v == t_table.cell[c][k]
                     IN  /\ (j = 0 \/ ~Positive(v)) => g = NaN
                         /\ j # 0 =>
                              /\ ~Positive(t_table.cell[c][j]) => g = NaN
                              /\ g # NaN => g = <<v[1], t_table.cell[c][j][1]>>

\* ---- C11 --------------------------------------------------------------
\* the (country, indicator) pair has no series in the tables d
Unknown(d, iso3, indicator) ==
    \/ indicator \notin DOMAIN d
    \/ iso3 \notin d[indicator].columns

EmptyEntry == [current |-> None, history |-> <<>>, growth_5y |-> None]

\* C11: in every collector state a facade call returns without raising and
\* changes no table, registry entry or load state; series and latest give
\* an empty series for an unknown country or indicator, the profile gives
\* current = None, empty history and growth_5y = None for every indicator
\* in which the country is unknown, and a snapshot row gives None for them.
C11_UnknownIdsGiveEmpty ==
    [][\A call \in QueryCalls :
          Query(call) =>
              LET d == AllFrames(dataframes, growthframes)
                  r == q_result'
              IN  /\ UNCHANGED cvars
                  /\ ~r.raised
                  /\ (call.op = "series" /\ Unknown(d, call.iso3, call.indicator))
                        => r.value = <<>>
                  /\ (call.op = "latest" /\ call.indicator \notin DOMAIN d)
                        => r.value = <<>>
                  /\ call.op = "profile" =>
                        /\ r.value.iso3 = call.iso3
                        /\ \A k \in 1..Len(CLUSTERS) :
                             \A n \in ClusterNames(k) :
                                LET e == r.value.data[k][n]
                                IN  /\ Unknown(d, call.iso3, n) =>
                                        e.current = None /\ e.history = <<>>
                                    /\ Unknown(d, call.iso3, GrowthKey(n)) =>
                                        e.growth_5y = None
                                    /\ (/\ Unknown(d, call.iso3, n)
                                        /\ Unknown(d, call.iso3, GrowthKey(n)))
                                          => e = EmptyEntry
                  /\ call.op = "snapshot" =>
                        \A k \in 1..Len(r.value) :
                            \A n \in INDICATORS :
                                Unknown(d, r.value[k].iso3, n) =>
                                    r.value[k].values[n] = None]_vars

\* the profile of a country no table knows was asked of a loaded collector
\* whose tables hold data, and came back empty for every indicator
C11_Witness ==
    /\ q_call = Call("profile", "ZZZ", "")
    /\ loaded
    /\ \A n \in INDICATORS : n \in DOMAIN dataframes /\ ~DFEmpty(dataframes[n])
    /\ ~q_result.raised
    /\ q_result.value.name = "ZZZ"
    /\ \A k \in 1..Len(CLUSTERS) :
          \A n \in ClusterNames(k) : q_result.value.data[k][n] = EmptyEntry

\* ---- C12 --------------------------------------------------------------
RankedCodes == {rankings[k].iso3 : k \in 1..Len(rankings)}

\* the countries with a value in both series, GDP growth > 0, CO2 growth < 0
Qualifying ==
    {c \in (DOMAIN co2_growth) \cap (DOMAIN gdp_growth) :
        /\ co2_growth[c] # NaN
        /\ gdp_growth[c] # NaN
        /\ gdp_growth[c][1] > 0
        /\ co2_growth[c][1] < 0}

RawScore(c) == gdp_growth[c][1] - co2_growth[c][1]

\* C12: the ranking holds only qualifying countries, each once, as many as
\* top_n allows, none left out scoring higher than one listed; it is in
\* non-increasing score order with ranks 1..k and percentage-scaled figures,
\* and is empty when no country qualifies; GDP {A: 0.03, B: -0.01} with CO2
\* {A: -0.02, B: -0.01} gives the single entry A with score 5.00.
C12_GreenGrowthRanking ==
    g_stage = "ranked" =>
        /\ RankedCodes \subseteq Qualifying
        /\ Cardinality(RankedCodes) = Len(rankings)
        /\ Len(rankings) = IF top_n < Cardinality(Qualifying)
                           THEN top_n ELSE Cardinality(Qualifying)
        /\ \A c \in Qualifying \ RankedCodes :
              \A k \in 1..Len(rankings) : RawScore(c) <= RawScore(rankings[k].iso3)
        /\ \A k \in 1..Len(rankings) :
              /\ rankings[k].rank = k
              /\ rankings[k].decoupling_score = RoundPercent(RawScore(rankings[k].iso3))
              /\ k > 1 => /\ RawScore(rankings[k-1].iso3) >= RawScore(rankings[k].iso3)
                          /\ rankings[k-1].decoupling_score
                                >= rankings[k].decoupling_score
        /\ Qualifying = {} => rankings = <<>>
        /\ (/\ gdp_growth = [c \in {"A", "B"} |-> IF c = "A" THEN <<3000>> ELSE <<0 - 1000>>]
            /\ co2_growth = [c \in {"A", "B"} |-> IF c = "A" THEN <<0 - 2000>> ELSE <<0 - 1000>>]
            /\ top_n >= 1)
              => /\ Len(rankings) = 1
                 /\ rankings[1].iso3 = "A"
                 /\ rankings[1].decoupling_score = 500

\* three countries qualify with different scores and top_n cuts the list
C12_Witness ==
    /\ g_stage = "ranked"
    /\ Cardinality(Qualifying) = 3
    /\ top_n = 2
    /\ Len(rankings) = 2
    /\ rankings[1].decoupling_score > rankings[2].decoupling_score
    /\ \E c \in Qualifying \ RankedCodes : RawScore(c) < RawScore(rankings[2].iso3)

\* ---- C13 --------------------------------------------------------------
\* no table at all, or a base table and a growth table for every catalog
\* indicator
WholeTableSet(frames, growth) ==
    \/ DOMAIN frames = {} /\ DOMAIN growth = {}
    \/ DOMAIN frames = INDICATORS /\ DOMAIN growth = INDICATORS

\* C13: a facade call made between any two steps of a load finds the table
\* set whole (as it was before the transform phase, or complete); the only
\* steps that change the table set are invalidate_cache() and the step in
\* which a load ends LOADED with a base table and a growth table for every
\* catalog indicator.
C13_NoTornReads ==
    /\ [][\A call \in QueryCalls :
             Query(call) => WholeTableSet(dataframes, growthframes)]_vars
    /\ [][(dataframes' # dataframes \/ growthframes' # growthframes) =>
             \/ InvalidateCache
             \/ \E l \in Loaders :
                   /\ Completes(l)
                   /\ loaded'
                   /\ DOMAIN dataframes' = INDICATORS
                   /\ DOMAIN growthframes' = INDICATORS]_vars

\* ---- C14 --------------------------------------------------------------
\* the country codes that a record of the cycle's raw data gives a name
SeenCodes(raw, order) ==
    UNION {DOMAIN TransformOf(raw[order[k]]).names : k \in 1..Len(order)}

\* the name carried by the first record, in transform order, that names c
FirstSeenName(raw, order, c) ==
    LET naming == {k \in 1..Len(order) : c \in DOMAIN TransformOf(raw[order[k]]).names}
    IN  TransformOf(raw[order[SetMin(naming)]]).names[c]

\* C14: when a load ends LOADED, every country code named by its records is
\* registered under the name of the first record seen for it in transform
\* order (or keeps the name it was registered under before); a later
\* record or a later indicator does not replace the name.
C14_FirstSeenNameWins ==
    [][\A l \in Loaders :
          Completes(l) =>
              LET raw == raw_data'[l]
                  order == RawOrder(cached'[l])
              IN  \A c \in SeenCodes(raw, order) :
                      /\ c \in DOMAIN country_names'
                      /\ \/ country_names'[c] = FirstSeenName(raw, order, c)
                         \/ /\ c \in DOMAIN country_names
                            /\ country_names'[c] = country_names[c]]_vars

\* ---- C15 --------------------------------------------------------------
\* the callers whose load_all() is suspended awaiting its fetches
Loading == {l \in Loaders : pc[l] = "awaiting"}

\* C15: at most one load_all() call is suspended in a fetch cycle at any
\* moment; a call made while another one is suspended submits no request
\* and writes no cache file.
C15_AtMostOneLoadCycle ==
    /\ [](Cardinality(Loading) <= 1)
    /\ [][\A l \in Loaders :
             (LoadAll(l) /\ Loading \ {l} # {}) =>
                 /\ issued'[l] = NoneIssued
                 /\ workQueue' = workQueue
                 /\ running' = running
                 /\ cacheFile' = cacheFile]_vars

\* ---- C16 --------------------------------------------------------------
\* position of indicator n in the transform order
PositionIn(order, n) == SetMin({k \in 1..Len(order) : order[k] = n})

====
